---- MODULE Spec2Model ----
(***************************************************************************)
(* key-synth: the polyphonic voice pool (synth.rs, synth_voice.rs) and the *)
(* MIDI input connection manager (midi_reader.rs), as state machines.      *)
(*                                                                         *)
(* SpecSynth : the voice pool under any interleaving of play_key,          *)
(*             stop_key, set_instrument and the audio output callback.     *)
(*             Every one of these runs with the SynthInner mutex held, so  *)
(*             each is one atomic action.                                  *)
(* SpecMidi  : the connection manager thread (MidiConnector::run), the     *)
(*             senders of its command channel and the MIDI ports of the    *)
(*             machine.  The manager's steps are the stretches of          *)
(*             run_step between two calls that block or that another       *)
(*             thread can observe.  The Receiver of the manager's messages *)
(*             has been dropped there: what it sends is discarded.         *)
(* FairSpecMidi : SpecMidi with the manager thread always scheduled.       *)
(* SpecCommands : the manager and the senders of its command channel with  *)
(*             one port present, for the order of the commands.            *)
(* SpecDecode : midi_message::decode applied to a received frame.          *)
(* SpecVoice : one SynthVoice with its frequency and overtones.            *)
(* SpecLock  : the threads that share SynthInner and its Mutex, with       *)
(*             play_key and stop_key taken in two halves.                  *)
(* SpecRun   : the consumer of the MIDI messages (SynthKeyboard::run) and  *)
(*             the output callback, with no history of the calls.          *)
(* FairSpecRun : SpecRun with the output callback invoked again and again. *)
(* SpecMix   : key presses and releases and the output callback with its   *)
(*             buffer.                                                     *)
(* SpecEvents : the manager, the driver callback of its connection and the *)
(*             consumer of the messages both send, with one port present.  *)
(***************************************************************************)
EXTENDS Integers, Sequences, FiniteSets, TLC

(***************************************************************************)
(* Sizes.  The program has 8 voices (synth.rs:36) and 88 keys              *)
(* (synth.rs:37); the model keeps both as parameters of the pool and       *)
(* checks it at a reduced size, with more keys than voices.                *)
(***************************************************************************)
MAX_VOICES == 2

NUM_KEYS == 3

VoiceIndexes == 0 .. (MAX_VOICES - 1)

KeyIndexes == 0 .. (NUM_KEYS - 1)

\* key arguments of play_key/stop_key: every key of the keyboard and one
\* key number past its end
KeyArgs == 0 .. NUM_KEYS

\* pressure arguments of play_key.  start stores the pressure in the
\* voice's volume only, so one value stands for all of them.
Pressures == {127}

Instruments == {"PIANO", "VIBRAPHONE", "BELL"}

VARIABLES
    voices,          \* SynthInner.voices
    keys,            \* SynthInner.keys
    next_voice,      \* SynthInner.next_voice
    last_call,       \* history: the last operation applied to the pool and
                     \* whether its key was playing
    fresh_run        \* history: the keys of the calls so far, while every
                     \* call since construction was an in-range play_key

VARIABLES
    pc,                   \* where the manager thread is in run / run_step
    accepted_midi_ports,  \* MidiConnector.accepted_midi_ports
    sleep_time_millis,    \* MidiConnector.sleep_time_millis
    connected_port_name,  \* MidiConnector.connected_port_name
    sleep_time,           \* run_step's local sleep_time
    in_port_name,         \* run_step's local in_port_name
    midi_in_connection,   \* TRUE while the MidiInputConnection is open
    commands,             \* the command channel, oldest first
    sender_alive,         \* the command Sender has not been dropped
    ports,                \* names of the MIDI input ports, enumeration order
    sent,                 \* history: messages the manager sent on
                          \* midi_sender since the last successful connect
    mgr_last              \* history: the manager's last decision

synth_vars == <<voices, keys, next_voice, last_call, fresh_run>>

midi_vars ==
    <<pc, accepted_midi_ports, sleep_time_millis, connected_port_name,
      sleep_time, in_port_name, midi_in_connection, commands, sender_alive,
      ports, sent, mgr_last>>

VARIABLES
    message,              \* the bytes the MIDI driver hands to the callback
    midi_msg              \* what the callback made of them

decode_vars == <<message, midi_msg>>

VARIABLES
    synth_voice,          \* one SynthVoice, with its tone
    voice_call            \* history: the last method called on it

voice_vars == <<synth_voice, voice_call>>

VARIABLES
    mutex,                \* the Mutex around SynthInner: "free" or its holder
    thread,               \* where each thread is in a SynthKeyboard accessor
    midi_connected,       \* SynthInner.midi_connected
    volume                \* SynthInner.volume, in tenths

lock_vars == <<mutex, thread, midi_connected, volume>>

VARIABLES
    out_data,             \* the output buffer the audio driver hands over
    played                \* history: what each voice generated in the last
                          \* output callback, before clamping

mix_vars == <<out_data, played>>

VARIABLES
    midi_read             \* the channel of MidiMessages from the manager and
                          \* the driver callback to SynthKeyboard::run:
                          \* whether its Receiver exists, and the messages
                          \* in flight, oldest first

vars ==
    <<synth_vars, midi_vars, decode_vars, voice_vars, lock_vars, mix_vars,
      midi_read>>

(***************************************************************************)
(* SynthKeyState                                                           *)
(***************************************************************************)
Off == [tag |-> "Off"]

Playing(voice_index) == [tag |-> "Playing", voice |-> voice_index]

VoiceStolen == [tag |-> "VoiceStolen"]

(***************************************************************************)
(* SynthInstrument: overtone frequencies in hundredths of the fundamental, *)
(* loudness in tenths.                                                     *)
(***************************************************************************)
NUM_OVERTONES == 5

Overtone(frequency, loudness) ==
    [frequency |-> frequency, loudness |-> loudness]

SynthInstrument(name) ==
    CASE name = "PIANO" ->
             <<Overtone(100, 10), Overtone(200, 5), Overtone(300, 8),
               Overtone(400, 1), Overtone(500, 3)>>
      [] name = "VIBRAPHONE" ->
             <<Overtone(100, 8), Overtone(200, 0), Overtone(300, 0),
               Overtone(400, 8), Overtone(500, 0)>>
      [] name = "BELL" ->
             <<Overtone(100, 10), Overtone(220, 6), Overtone(330, 9),
               Overtone(440, 1), Overtone(550, 3)>>

(***************************************************************************)
(* SynthVoice, as the pool sees it: the pool logic reads active, stopping  *)
(* and key.  freq, volume, tick and the derived overtones are floating     *)
(* point quantities that only gen_samples reads; start stores its pressure *)
(* in volume only.  The tone of a voice is added further down.             *)
(***************************************************************************)
EMPTY ==
    [active |-> FALSE, stopping |-> FALSE, key |-> 0, instrument |-> "PIANO"]

start(voice, key, pressure) ==
    [voice EXCEPT !.key = key, !.active = TRUE, !.stopping = FALSE]

\* mutation of stop: the voice is switched off at once
stop_deactivates(voice) ==
    [voice EXCEPT !.stopping = TRUE, !.active = FALSE]

stop(voice) == [voice EXCEPT !.stopping = TRUE]

voice_set_instrument(voice, instrument) ==
    [voice EXCEPT !.instrument = instrument]

\* mutation of gen_samples: a stopping voice is left active
gen_samples_keeps_active(voice) == voice

\* the state effect of gen_samples on the voice: a stopping voice is
\* inactive when the buffer is finished
gen_samples(voice) ==
    IF voice.stopping THEN [voice EXCEPT !.active = FALSE] ELSE voice

(***************************************************************************)
(* SynthVoice with its tone: freq and the derived overtones.  freq is 0.0  *)
(* or the frequency of a note; an overtone frequency is 0.0 or the product *)
(* of a ratio and a note frequency, kept as the pair of its factors.       *)
(***************************************************************************)
\* 0.0 as a frequency
ZeroHz == [zero |-> TRUE, ratio |-> 0, note |-> 0]

\* 440 * 2^((note - 69) / 12), the frequency of the note, times 1
get_midi_note_frequency(note) == [zero |-> FALSE, ratio |-> 1, note |-> note]

\* ratio * freq in f32: 0.0 when freq is 0.0
Times(ratio, freq) ==
    IF freq.zero THEN ZeroHz
    ELSE [zero |-> FALSE, ratio |-> ratio * freq.ratio, note |-> freq.note]

SynthVoice_EMPTY ==
    [active |-> EMPTY.active, stopping |-> EMPTY.stopping, key |-> EMPTY.key,
     instrument |-> EMPTY.instrument, freq |-> ZeroHz,
     overtones |-> [i \in 1 .. NUM_OVERTONES |-> <<ZeroHz, 0>>]]

\* mutation of update_overtones: the loudness is added to the stored one
update_overtones_accumulates(voice) ==
    [voice EXCEPT
       !.overtones =
           [i \in 1 .. NUM_OVERTONES |->
              <<Times(SynthInstrument(voice.instrument)[i].frequency,
                      voice.freq),
                voice.overtones[i][2]
                    + SynthInstrument(voice.instrument)[i].loudness>>]]

update_overtones(voice) ==
    [voice EXCEPT
       !.overtones =
           [i \in 1 .. NUM_OVERTONES |->
              <<Times(SynthInstrument(voice.instrument)[i].frequency,
                      voice.freq),
                SynthInstrument(voice.instrument)[i].loudness>>]]

\* start, tone included
SynthVoice_start(voice, key, pressure) ==
    update_overtones([start(voice, key, pressure) EXCEPT
                        !.freq = get_midi_note_frequency(key)])

\* set_instrument, tone included
SynthVoice_set_instrument(voice, instrument) ==
    update_overtones(voice_set_instrument(voice, instrument))

\* one voice under any sequence of its methods; gen_samples is called on
\* an active voice only
SynthVoice_do_start(key, pressure) ==
    /\ synth_voice' = SynthVoice_start(synth_voice, key, pressure)
    /\ voice_call' = "start"
    /\ UNCHANGED <<synth_vars, midi_vars, decode_vars, lock_vars, mix_vars, midi_read>>

SynthVoice_do_stop ==
    /\ synth_voice' = stop(synth_voice)
    /\ voice_call' = "stop"
    /\ UNCHANGED <<synth_vars, midi_vars, decode_vars, lock_vars, mix_vars, midi_read>>

SynthVoice_do_set_instrument(instrument) ==
    /\ synth_voice' = SynthVoice_set_instrument(synth_voice, instrument)
    /\ voice_call' = "set_instrument"
    /\ UNCHANGED <<synth_vars, midi_vars, decode_vars, lock_vars, mix_vars, midi_read>>

SynthVoice_do_gen_samples ==
    /\ synth_voice.active
    /\ synth_voice' = gen_samples(synth_voice)
    /\ voice_call' = "gen_samples"
    /\ UNCHANGED <<synth_vars, midi_vars, decode_vars, lock_vars, mix_vars, midi_read>>

InitVoice == synth_voice = SynthVoice_EMPTY /\ voice_call = "EMPTY"

(***************************************************************************)
(* SynthInner                                                              *)
(***************************************************************************)
Inner == [voices |-> voices, keys |-> keys, next_voice |-> next_voice]

SynthInner_new ==
    [voices |-> [i \in VoiceIndexes |-> EMPTY],
     keys |-> [k \in KeyIndexes |-> Off],
     next_voice |-> 0]

\* the for loop of get_new_voice: at most n more steps from voice_index
RECURSIVE scan_voices(_, _, _)
scan_voices(vs, voice_index, n) ==
    IF n = 0 THEN voice_index
    ELSE LET w == (voice_index + 1) % MAX_VOICES
         IN  IF ~ vs[w].active THEN w ELSE scan_voices(vs, w, n - 1)

\* mutation of get_new_voice: the scan stops one voice short
get_new_voice_short_scan(inner) ==
    IF ~ inner.voices[inner.next_voice].active
    THEN [voice_index |-> inner.next_voice,
          next_voice |-> (inner.next_voice + 1) % MAX_VOICES]
    ELSE LET voice_index ==
                 scan_voices(inner.voices, inner.next_voice, MAX_VOICES - 1)
         IN  [voice_index |-> voice_index,
              next_voice |-> (voice_index + 1) % MAX_VOICES]

\* mutation of get_new_voice: the voice at the cursor is not looked at
get_new_voice_skips_cursor(inner) ==
    LET voice_index ==
            scan_voices(inner.voices, inner.next_voice, MAX_VOICES)
    IN  [voice_index |-> voice_index,
         next_voice |-> (voice_index + 1) % MAX_VOICES]

\* returns the voice index and the new cursor
get_new_voice(inner) ==
    IF ~ inner.voices[inner.next_voice].active
    THEN [voice_index |-> inner.next_voice,
          next_voice |-> (inner.next_voice + 1) % MAX_VOICES]
    ELSE LET voice_index ==
                 scan_voices(inner.voices, inner.next_voice, MAX_VOICES)
         IN  [voice_index |-> voice_index,
              next_voice |-> (voice_index + 1) % MAX_VOICES]

\* mutation of play_key: a key that is already playing gets a new voice
play_key_always_allocates(inner, key, pressure) ==
    LET got == get_new_voice(inner)
        voice_index == got.voice_index
        keys1 == IF inner.voices[voice_index].active
                 THEN [inner.keys EXCEPT
                         ![inner.voices[voice_index].key] = VoiceStolen]
                 ELSE inner.keys
    IN  [voices |-> [inner.voices EXCEPT
                       ![voice_index] = start(@, key, pressure)],
         keys |-> [keys1 EXCEPT ![key] = Playing(voice_index)],
         next_voice |-> got.next_voice]

play_key(inner, key, pressure) ==
    IF inner.keys[key].tag = "Playing"
    THEN [inner EXCEPT
            !.voices[inner.keys[key].voice] = start(@, key, pressure)]
    ELSE LET got == get_new_voice(inner)
             voice_index == got.voice_index
             keys1 == IF inner.voices[voice_index].active
                      THEN [inner.keys EXCEPT
                              ![inner.voices[voice_index].key] = VoiceStolen]
                      ELSE inner.keys
         IN  [voices |-> [inner.voices EXCEPT
                            ![voice_index] = start(@, key, pressure)],
              keys |-> [keys1 EXCEPT ![key] = Playing(voice_index)],
              next_voice |-> got.next_voice]

\* mutation of stop_key: the key is left in its state
stop_key_keeps_state(inner, key) ==
    LET vs == IF inner.keys[key].tag = "Playing"
              THEN [inner.voices EXCEPT ![inner.keys[key].voice] = stop(@)]
              ELSE inner.voices
    IN  [inner EXCEPT !.voices = vs]

stop_key(inner, key) ==
    LET vs == IF inner.keys[key].tag = "Playing"
              THEN [inner.voices EXCEPT ![inner.keys[key].voice] = stop(@)]
              ELSE inner.voices
    IN  [inner EXCEPT !.voices = vs, !.keys[key] = Off]

\* mutation of set_instrument: voices that are not sounding are skipped
set_instrument_active_only(inner, instrument) ==
    [inner EXCEPT
       !.voices = [i \in VoiceIndexes |->
                     IF inner.voices[i].active
                     THEN voice_set_instrument(inner.voices[i], instrument)
                     ELSE inner.voices[i]]]

set_instrument(inner, instrument) ==
    [inner EXCEPT
       !.voices = [i \in VoiceIndexes |->
                     voice_set_instrument(inner.voices[i], instrument)]]

\* the output callback built in open_sound_out: every active voice
\* generates its samples
output_callback(inner) ==
    [inner EXCEPT
       !.voices = [i \in VoiceIndexes |->
                     IF inner.voices[i].active
                     THEN gen_samples(inner.voices[i])
                     ELSE inner.voices[i]]]

(***************************************************************************)
(* SynthKeyboard: the locked entry points                                  *)
(***************************************************************************)
SetInner(inner) ==
    /\ voices' = inner.voices
    /\ keys' = inner.keys
    /\ next_voice' = inner.next_voice

\* whether the key of a call was playing when the call was made
KeyWas(key) ==
    IF key \in KeyIndexes /\ keys[key].tag = "Playing" THEN "Playing"
    ELSE "NotPlaying"

FreshLimit == MAX_VOICES + 1

\* fresh_run after an in-range play_key(key)
FreshAfterPlay(key) ==
    IF fresh_run # "other" /\ key \in KeyIndexes /\ Len(fresh_run) < FreshLimit
    THEN Append(fresh_run, key)
    ELSE "other"

\* mutation of SynthKeyboard_play_key: a key number past the keyboard is
\* folded back onto it
SynthKeyboard_play_key_folds(key, pressure) ==
    /\ SetInner(play_key(Inner, key % NUM_KEYS, pressure))
    /\ last_call' = [op |-> "play_key", was |-> KeyWas(key)]
    /\ fresh_run' = FreshAfterPlay(key)
    /\ UNCHANGED <<midi_vars, decode_vars, voice_vars, lock_vars, mix_vars, midi_read>>

SynthKeyboard_play_key(key, pressure) ==
    /\ SetInner(IF key >= NUM_KEYS THEN Inner
                ELSE play_key(Inner, key, pressure))
    /\ last_call' = [op |-> "play_key", was |-> KeyWas(key)]
    /\ fresh_run' = FreshAfterPlay(key)
    /\ UNCHANGED <<midi_vars, decode_vars, voice_vars, lock_vars, mix_vars, midi_read>>

SynthKeyboard_stop_key(key) ==
    /\ SetInner(IF key >= NUM_KEYS THEN Inner ELSE stop_key(Inner, key))
    /\ last_call' = [op |-> "stop_key", was |-> KeyWas(key)]
    /\ fresh_run' = "other"
    /\ UNCHANGED <<midi_vars, decode_vars, voice_vars, lock_vars, mix_vars, midi_read>>

SynthKeyboard_set_instrument(instrument) ==
    /\ SetInner(set_instrument(Inner, instrument))
    /\ last_call' = [op |-> "set_instrument", was |-> "None"]
    /\ fresh_run' = "other"
    /\ UNCHANGED <<midi_vars, decode_vars, voice_vars, lock_vars, mix_vars, midi_read>>

OutputCallback ==
    /\ SetInner(output_callback(Inner))
    /\ last_call' = [op |-> "output_callback", was |-> "None"]
    /\ fresh_run' = "other"
    /\ UNCHANGED <<midi_vars, decode_vars, voice_vars, lock_vars, mix_vars, midi_read>>

\* SynthKeyboard::run, the consumer of the MIDI messages: a NoteOn is a
\* play_key and a NoteOff a stop_key; the history of the calls is not kept
SynthKeyboard_run_NoteOn(key, pressure) ==
    /\ SetInner(IF key >= NUM_KEYS THEN Inner
                ELSE play_key(Inner, key, pressure))
    /\ UNCHANGED <<last_call, fresh_run, midi_vars, decode_vars, voice_vars,
                   lock_vars, mix_vars, midi_read>>

SynthKeyboard_run_NoteOff(key) ==
    /\ SetInner(IF key >= NUM_KEYS THEN Inner ELSE stop_key(Inner, key))
    /\ UNCHANGED <<last_call, fresh_run, midi_vars, decode_vars, voice_vars,
                   lock_vars, mix_vars, midi_read>>

InitSynthInner ==
    /\ voices = SynthInner_new.voices
    /\ keys = SynthInner_new.keys
    /\ next_voice = SynthInner_new.next_voice
    /\ last_call = [op |-> "new", was |-> "None"]
    /\ fresh_run = << >>

SynthStep ==
    \/ \E key \in KeyArgs, pressure \in Pressures :
           SynthKeyboard_play_key(key, pressure)
    \/ \E key \in KeyArgs : SynthKeyboard_stop_key(key)
    \/ \E instrument \in Instruments :
           SynthKeyboard_set_instrument(instrument)
    \/ OutputCallback

(***************************************************************************)
(* SynthKeyboard: the Mutex around SynthInner.  Every accessor locks, runs *)
(* its body on the guarded state and drops the guard when it returns.  The *)
(* bodies of play_key and stop_key are taken in two halves, so that the    *)
(* state in the middle of them exists.                                     *)
(***************************************************************************)
Threads == {"consumer", "audio", "ui"}

\* the keys the consumer thread plays and releases here
LockKeys == 0 .. 1

\* the volumes the slider sets, in tenths
Volumes == {7, 10}

NoCall ==
    [op |-> "none", key |-> 0, pressure |-> 0, instrument |-> "PIANO",
     flag |-> FALSE, volume |-> 0]

\* the accessors each thread calls: SynthKeyboard::run, the output
\* callback, and the window
CallsOf(t) ==
    IF t = "consumer"
    THEN { [NoCall EXCEPT !.op = "play_key", !.key = k, !.pressure = p] :
               k \in LockKeys, p \in Pressures }
         \cup { [NoCall EXCEPT !.op = "stop_key", !.key = k] : k \in LockKeys }
         \cup { [NoCall EXCEPT !.op = "set_midi_connected", !.flag = f] :
                    f \in BOOLEAN }
    ELSE IF t = "audio"
    THEN { [NoCall EXCEPT !.op = "output_callback"] }
    ELSE { [NoCall EXCEPT !.op = "set_instrument", !.instrument = x] :
               x \in Instruments }
         \cup { [NoCall EXCEPT !.op = "set_volume", !.volume = v] :
                    v \in Volumes }
         \cup { [NoCall EXCEPT !.op = o] :
                    o \in {"is_midi_connected", "get_volume", "copy_keys"} }

\* a thread that is in no accessor; before holds the SynthInner a thread
\* found when it locked
Idle ==
    [at |-> "idle", call |-> NoCall, voice_index |-> 0, before |-> << >>]

\* play_key, lines 79-87: a voice is taken and its key marked
play_key_allocate(inner, key) ==
    LET got == get_new_voice(inner)
        voice_index == got.voice_index
        keys1 == IF inner.voices[voice_index].active
                 THEN [inner.keys EXCEPT
                         ![inner.voices[voice_index].key] = VoiceStolen]
                 ELSE inner.keys
    IN  [inner |-> [inner EXCEPT !.keys = keys1,
                                 !.next_voice = got.next_voice],
         voice_index |-> voice_index]

\* play_key, lines 90-91: the voice is started and the key set
play_key_start(inner, key, pressure, voice_index) ==
    [inner EXCEPT !.voices[voice_index] = start(@, key, pressure),
                  !.keys[key] = Playing(voice_index)]

\* stop_key, lines 96-98
stop_key_voice(inner, key) ==
    IF inner.keys[key].tag = "Playing"
    THEN [inner EXCEPT !.voices[inner.keys[key].voice] = stop(@)]
    ELSE inner

\* stop_key, line 99
stop_key_off(inner, key) == [inner EXCEPT !.keys[key] = Off]

\* the body of the accessor has a second half
HasSecondHalf(inner, call) ==
    \/ call.op = "play_key" /\ inner.keys[call.key].tag # "Playing"
    \/ call.op = "stop_key"

\* self.inner.lock().unwrap(): the thread waits until the Mutex is free
SynthKeyboard_lock(t, call) ==
    /\ thread[t].at = "idle"
    /\ mutex = "free"
    /\ mutex' = t
    /\ thread' = [thread EXCEPT ![t] = [at |-> "locked", call |-> call,
                                        voice_index |-> 0,
                                        before |-> <<Inner>>]]
    /\ UNCHANGED <<synth_vars, midi_vars, decode_vars, voice_vars, mix_vars, midi_read,
                   midi_connected, volume>>

\* what the first half of the body does to SynthInner
first_half(inner, call) ==
    CASE call.op = "play_key" ->
             IF inner.keys[call.key].tag = "Playing"
             THEN play_key(inner, call.key, call.pressure)
             ELSE play_key_allocate(inner, call.key).inner
      [] call.op = "stop_key" -> stop_key_voice(inner, call.key)
      [] call.op = "set_instrument" -> set_instrument(inner, call.instrument)
      [] call.op = "output_callback" -> output_callback(inner)
      [] OTHER -> inner

\* mutation of SynthKeyboard_first: the guard is dropped in the middle of
\* play_key and stop_key and taken again for the rest
SynthKeyboard_first_drops_guard(t) ==
    /\ thread[t].at = "locked"
    /\ LET call == thread[t].call
       IN  /\ SetInner(first_half(Inner, call))
           /\ midi_connected' = IF call.op = "set_midi_connected"
                                THEN call.flag ELSE midi_connected
           /\ volume' = IF call.op = "set_volume" THEN call.volume ELSE volume
           /\ mutex' = "free"
           /\ IF HasSecondHalf(Inner, call)
              THEN thread' =
                       [thread EXCEPT
                          ![t].at = "half",
                          ![t].voice_index =
                              IF call.op = "play_key"
                              THEN play_key_allocate(Inner, call.key).voice_index
                              ELSE 0]
              ELSE thread' = [thread EXCEPT ![t] = Idle]
    /\ UNCHANGED <<last_call, fresh_run, midi_vars, decode_vars, voice_vars, mix_vars, midi_read>>

\* the body up to its middle, or all of it; the guard is dropped when the
\* accessor returns
SynthKeyboard_first(t) ==
    /\ thread[t].at = "locked"
    /\ LET call == thread[t].call
       IN  /\ SetInner(first_half(Inner, call))
           /\ midi_connected' = IF call.op = "set_midi_connected"
                                THEN call.flag ELSE midi_connected
           /\ volume' = IF call.op = "set_volume" THEN call.volume ELSE volume
           /\ IF HasSecondHalf(Inner, call)
              THEN /\ thread' =
                          [thread EXCEPT
                             ![t].at = "half",
                             ![t].voice_index =
                                 IF call.op = "play_key"
                                 THEN play_key_allocate(Inner, call.key).voice_index
                                 ELSE 0]
                   /\ UNCHANGED mutex
              ELSE /\ thread' = [thread EXCEPT ![t] = Idle]
                   /\ mutex' = "free"
    /\ UNCHANGED <<last_call, fresh_run, midi_vars, decode_vars, voice_vars, mix_vars, midi_read>>

\* the rest of play_key and stop_key, and the return
SynthKeyboard_second(t) ==
    /\ thread[t].at = "half"
    /\ LET call == thread[t].call
       IN  SetInner(IF call.op = "play_key"
                    THEN play_key_start(Inner, call.key, call.pressure,
                                        thread[t].voice_index)
                    ELSE stop_key_off(Inner, call.key))
    /\ thread' = [thread EXCEPT ![t] = Idle]
    /\ mutex' = "free"
    /\ UNCHANGED <<last_call, fresh_run, midi_vars, decode_vars, voice_vars, mix_vars, midi_read,
                   midi_connected, volume>>

\* SynthKeyboard::start: nobody holds the Mutex, SynthInner::new
InitLock ==
    /\ mutex = "free"
    /\ thread = [t \in Threads |-> Idle]
    /\ midi_connected = FALSE
    /\ volume = 7

NextLock ==
    \/ \E t \in Threads : \E call \in CallsOf(t) : SynthKeyboard_lock(t, call)
    \/ \E t \in Threads : SynthKeyboard_first(t)
    \/ \E t \in Threads : SynthKeyboard_second(t)

(***************************************************************************)
(* The output callback with its buffer.  A voice's sample value is a float *)
(* computed from its tick, volume and overtones; here the values of a      *)
(* buffer are any wave of Waves.                                           *)
(***************************************************************************)
BUFFER_SIZE == 2

I16_MIN == -32768

I16_MAX == 32767

\* what a voice can generate for one buffer: a loud wave that starts above
\* the range of i16, and a flat one
Waves ==
    { [n \in 1 .. BUFFER_SIZE |-> IF n = 1 THEN 40000 ELSE -20000],
      [n \in 1 .. BUFFER_SIZE |-> -20000] }

\* val.clamp(i16::MIN as f32, i16::MAX as f32).round() as i16
clamp(val) ==
    IF val < I16_MIN THEN I16_MIN ELSE IF val > I16_MAX THEN I16_MAX ELSE val

\* i16::saturating_add
saturating_add(a, b) ==
    IF a + b < I16_MIN THEN I16_MIN
    ELSE IF a + b > I16_MAX THEN I16_MAX
    ELSE a + b

\* gen_samples, lines 114-123: what it does to the buffer
gen_samples_data(buf, wave) ==
    [n \in 1 .. Len(buf) |-> saturating_add(buf[n], clamp(wave[n]))]

\* the loop over the voices of the output callback, from voice i on
RECURSIVE mix_voices(_, _, _, _)
mix_voices(vs, waves, buf, i) ==
    IF i >= MAX_VOICES THEN buf
    ELSE mix_voices(vs, waves,
                    IF vs[i].active THEN gen_samples_data(buf, waves[i])
                    ELSE buf,
                    i + 1)

\* mutation of output_callback_data: the buffer is not cleared first
output_callback_data_keeps_buffer(vs, waves, buf) ==
    mix_voices(vs, waves, buf, 0)

\* the output callback, lines 182-190: what it leaves in the buffer
output_callback_data(vs, waves, buf) ==
    mix_voices(vs, waves, [n \in 1 .. Len(buf) |-> 0], 0)

\* the output callback, buffer and voices
OutputCallback_data ==
    /\ \E waves \in [{i \in VoiceIndexes : voices[i].active} -> Waves] :
           /\ out_data' = output_callback_data(voices, waves, out_data)
           /\ played' = waves
    /\ SetInner(output_callback(Inner))
    /\ UNCHANGED <<last_call, fresh_run, midi_vars, decode_vars, voice_vars,
                   lock_vars, midi_read>>

\* the buffer of the driver before the first callback; nothing played
InitMix ==
    /\ out_data = [n \in 1 .. BUFFER_SIZE |-> 0]
    /\ played = << >>

NextMix ==
    \/ \E key \in LockKeys : \E pressure \in Pressures :
           SynthKeyboard_run_NoteOn(key, pressure)
    \/ \E key \in LockKeys : SynthKeyboard_run_NoteOff(key)
    \/ OutputCallback_data

(***************************************************************************)
(* MIDI connection manager (midi_reader.rs)                                *)
(***************************************************************************)
MaxCommands == 1

MaxPorts == 2

DEFAULT_SLEEP_TIME == 5000

\* the poll intervals a ConfigSleepTime command can carry
SleepTimes == {DEFAULT_SLEEP_TIME, DEFAULT_SLEEP_TIME \div 20}

\* Strings are sequences of characters, so that str::contains is computed.
\* The names a port can have and the pattern lists a caller can configure;
\* the first list is the one MidiReader::start is given.
PortNames == { <<"s", "k">>, <<"s", "k", "x">> }

DEFAULT_MIDI_PORTS == << <<"s", "k">> >>

AcceptedPortLists ==
    { DEFAULT_MIDI_PORTS,
      << <<"k", "x">> >>,
      << <<"u">>, <<"s", "k", "x">> >> }

RECURSIVE SeqsUpTo(_, _)
SeqsUpTo(S, n) ==
    IF n = 0 THEN { << >> }
    ELSE LET shorter == SeqsUpTo(S, n - 1)
         IN  shorter \cup
             { Append(q, x) : q \in { r \in shorter : Len(r) = n - 1 },
                              x \in S }

PortLists == SeqsUpTo(PortNames, MaxPorts)

Range(q) == { q[i] : i \in 1 .. Len(q) }

\* Option<T>
None == [some |-> FALSE]

Some(x) == [some |-> TRUE, val |-> x]

\* MidiReaderCommand
Close == [cmd |-> "Close"]

ConfigAcceptedPorts(accepted) ==
    [cmd |-> "ConfigAcceptedPorts", accepted_midi_ports |-> accepted]

ConfigSleepTime(millis) ==
    [cmd |-> "ConfigSleepTime", sleep_time_millis |-> millis]

\* MidiMessage::PortConnected and MidiMessage::PortDisconnected
PortConnected == [tag |-> "PortConnected"]

PortDisconnected == [tag |-> "PortDisconnected"]

\* the most messages that wait in the channel when a connection is opened
\* or the driver delivers a frame
MaxMessages == 1

\* mpsc::channel()
Channel(receiver, queue) == [receiver |-> receiver, queue |-> queue]

\* midi_sender.send(..).unwrap_or(()): the message is queued while the
\* Receiver exists; with the Receiver dropped send fails and the failure is
\* ignored
midi_sender_send(channel, msg) ==
    IF channel.receiver
    THEN [channel EXCEPT !.queue = Append(@, msg)]
    ELSE channel

\* str::contains: a occurs in port_name as a contiguous run
contains(port_name, a) ==
    \E i \in 1 .. (Len(port_name) - Len(a) + 1) :
        SubSeq(port_name, i, i + Len(a) - 1) = a

\* MidiInput::port_name fails on the port at position `fail` (0: on none).
\* has_connected_midi_in_port from port i on.
RECURSIVE has_connected_from(_, _, _, _)
has_connected_from(ps, connected, fail, i) ==
    IF i > Len(ps) THEN FALSE
    ELSE IF i = fail THEN FALSE
    ELSE IF ps[i] = connected THEN TRUE
    ELSE has_connected_from(ps, connected, fail, i + 1)

\* mutation of has_connected_midi_in_port: a port whose name merely contains
\* the connected name counts as the connected port
has_connected_midi_in_port_substring(ps, connected, fail) ==
    /\ connected.some
    /\ \E i \in 1 .. Len(ps) :
           /\ contains(ps[i], connected.val)
           /\ fail \notin 1 .. i

has_connected_midi_in_port(ps, connected, fail) ==
    IF connected.some
    THEN has_connected_from(ps, connected.val, fail, 1)
    ELSE FALSE

\* select_midi_in_port from port i on: Some(name) for Ok, None for Err
RECURSIVE select_from(_, _, _, _)
select_from(ps, accepted, fail, i) ==
    IF i > Len(ps) THEN None
    ELSE IF i = fail THEN None
    ELSE IF \E a \in Range(accepted) : contains(ps[i], a) THEN Some(ps[i])
    ELSE select_from(ps, accepted, fail, i + 1)

select_midi_in_port(ps, accepted, fail) == select_from(ps, accepted, fail, 1)

\* mutation of recv_timeout: the newest queued command is delivered
recv_timeout_newest(cmds, alive) ==
    IF cmds # << >> THEN [kind |-> "Ok", msg |-> cmds[Len(cmds)]]
    ELSE IF alive THEN [kind |-> "Timeout"]
    ELSE [kind |-> "Disconnected"]

\* mpsc::Receiver::recv_timeout: a queued command is delivered first; with
\* an empty queue the wait ends in Timeout, or in Disconnected when every
\* Sender is gone
recv_timeout(cmds, alive) ==
    IF cmds # << >> THEN [kind |-> "Ok", msg |-> Head(cmds)]
    ELSE IF alive THEN [kind |-> "Timeout"]
    ELSE [kind |-> "Disconnected"]

\* mutation of recv_arm: a severed channel is taken for a timeout
recv_arm_disconnected_as_timeout(r) ==
    IF r.kind = "Ok" THEN r.msg.cmd ELSE "Timeout"

\* mutation of recv_arm: a wait that times out is taken for Close
recv_arm_timeout_as_close(r) ==
    IF r.kind = "Ok" THEN r.msg.cmd ELSE "Close"

\* the match arm of run_step that takes the result of recv_timeout
recv_arm(r) ==
    IF r.kind = "Ok" THEN r.msg.cmd
    ELSE IF r.kind = "Disconnected" THEN "Close"
    ELSE "Timeout"

\* what the result of recv_timeout was, for the history
recv_outcome(r) == IF r.kind = "Ok" THEN r.msg.cmd ELSE r.kind

Decision(at, outcome) == [at |-> at, outcome |-> outcome]

\* run_step, lines 65-68: the poll interval is read and a port selected
run_step_select ==
    /\ pc = "select"
    /\ sleep_time' = sleep_time_millis
    /\ \E fail \in 0 .. Len(ports) :
           LET found == select_midi_in_port(ports, accepted_midi_ports, fail)
           IN  /\ in_port_name' = found
               /\ pc' = IF found.some THEN "connect" ELSE "search_recv"
               /\ mgr_last' = Decision("select",
                                       IF found.some THEN "found" ELSE "none")
    /\ UNCHANGED <<synth_vars, decode_vars, voice_vars, lock_vars, mix_vars, midi_read, accepted_midi_ports, sleep_time_millis,
                   connected_port_name, midi_in_connection, commands,
                   sender_alive, ports, sent>>

\* run_step, lines 71-92: no port selected, wait for a command
run_step_search_recv ==
    /\ pc = "search_recv"
    /\ LET r == recv_timeout(commands, sender_alive)
           arm == recv_arm(r)
       IN  /\ commands' = IF r.kind = "Ok" THEN Tail(commands) ELSE commands
           /\ mgr_last' = Decision("search_recv", recv_outcome(r))
           /\ pc' = IF arm = "Close" THEN "done" ELSE "select"
           /\ accepted_midi_ports' =
                  IF arm = "ConfigAcceptedPorts"
                  THEN r.msg.accepted_midi_ports
                  ELSE accepted_midi_ports
           /\ sleep_time_millis' =
                  IF arm = "ConfigSleepTime"
                  THEN r.msg.sleep_time_millis
                  ELSE sleep_time_millis
    /\ UNCHANGED <<synth_vars, decode_vars, voice_vars, lock_vars, mix_vars, midi_read, connected_port_name, sleep_time, in_port_name,
                   midi_in_connection, sender_alive, ports, sent>>

\* the results of MidiInput::connect taken here: Ok or Err, and Err alone
\* once MaxMessages messages wait in the channel
ConnectResults ==
    IF Len(midi_read.queue) < MaxMessages THEN BOOLEAN ELSE {FALSE}

\* mutation of run_step_connect: a failed connect ends the manager
run_step_connect_failure_stops ==
    /\ pc = "connect"
    /\ \E ok \in ConnectResults :
           IF ok
           THEN /\ midi_in_connection' = TRUE
                /\ sent' = << >>
                /\ pc' = "connected"
                /\ mgr_last' = Decision("connect", "ok")
                /\ UNCHANGED connected_port_name
           ELSE /\ connected_port_name' = None
                /\ pc' = "done"
                /\ mgr_last' = Decision("connect", "failed")
                /\ UNCHANGED <<midi_in_connection, sent>>
    /\ UNCHANGED <<synth_vars, decode_vars, voice_vars, lock_vars, mix_vars, midi_read, accepted_midi_ports, sleep_time_millis, sleep_time,
                   in_port_name, commands, sender_alive, ports>>

\* run_step, lines 97-117: MidiInput::connect succeeds or fails
run_step_connect ==
    /\ pc = "connect"
    /\ \E ok \in ConnectResults :
           IF ok
           THEN /\ midi_in_connection' = TRUE
                /\ sent' = << >>
                /\ pc' = "connected"
                /\ mgr_last' = Decision("connect", "ok")
                /\ UNCHANGED connected_port_name
           ELSE /\ connected_port_name' = None
                /\ pc' = "sleep"
                /\ mgr_last' = Decision("connect", "failed")
                /\ UNCHANGED <<midi_in_connection, sent>>
    /\ UNCHANGED <<synth_vars, decode_vars, voice_vars, lock_vars, mix_vars, midi_read, accepted_midi_ports, sleep_time_millis, sleep_time,
                   in_port_name, commands, sender_alive, ports>>

\* run_step, line 112: thread::sleep(sleep_time), then return to run
run_step_sleep ==
    /\ pc = "sleep"
    /\ pc' = "select"
    /\ UNCHANGED <<synth_vars, decode_vars, voice_vars, lock_vars, mix_vars, midi_read, accepted_midi_ports, sleep_time_millis,
                   connected_port_name, sleep_time, in_port_name,
                   midi_in_connection, commands, sender_alive, ports, sent,
                   mgr_last>>

\* mutation of run_step_connected: the port name is not recorded
run_step_connected_forgets_name ==
    /\ pc = "connected"
    /\ sent' = Append(sent, "PortConnected")
    /\ midi_read' = midi_sender_send(midi_read, PortConnected)
    /\ pc' = "conn_recv"
    /\ UNCHANGED <<synth_vars, decode_vars, voice_vars, lock_vars, mix_vars, accepted_midi_ports, sleep_time_millis,
                   connected_port_name, sleep_time, in_port_name,
                   midi_in_connection, commands, sender_alive, ports,
                   mgr_last>>

\* run_step, lines 119-120: the name is recorded, PortConnected sent
run_step_connected ==
    /\ pc = "connected"
    /\ connected_port_name' = in_port_name
    /\ sent' = Append(sent, "PortConnected")
    /\ midi_read' = midi_sender_send(midi_read, PortConnected)
    /\ pc' = "conn_recv"
    /\ UNCHANGED <<synth_vars, decode_vars, voice_vars, lock_vars, mix_vars, accepted_midi_ports, sleep_time_millis, sleep_time,
                   in_port_name, midi_in_connection, commands, sender_alive,
                   ports, mgr_last>>

\* mutation of run_step_conn_recv: new patterns that still match the
\* connected port leave the connection alone
run_step_conn_recv_keeps_matching ==
    /\ pc = "conn_recv"
    /\ LET r == recv_timeout(commands, sender_alive)
           arm == recv_arm(r)
           still == /\ arm = "ConfigAcceptedPorts"
                    /\ \E a \in Range(r.msg.accepted_midi_ports) :
                           contains(connected_port_name.val, a)
           disconnect == arm \in {"Close", "ConfigAcceptedPorts"} /\ ~ still
       IN  /\ commands' = IF r.kind = "Ok" THEN Tail(commands) ELSE commands
           /\ mgr_last' = Decision("conn_recv", recv_outcome(r))
           /\ accepted_midi_ports' =
                  IF arm = "ConfigAcceptedPorts"
                  THEN r.msg.accepted_midi_ports
                  ELSE accepted_midi_ports
           /\ sleep_time_millis' =
                  IF arm = "ConfigSleepTime"
                  THEN r.msg.sleep_time_millis
                  ELSE sleep_time_millis
           /\ sent' = IF disconnect THEN Append(sent, "PortDisconnected")
                      ELSE sent
           /\ midi_read' =
                  IF disconnect
                  THEN midi_sender_send(midi_read, PortDisconnected)
                  ELSE midi_read
           /\ connected_port_name' =
                  IF disconnect THEN None ELSE connected_port_name
           /\ pc' = IF ~ disconnect THEN "check_port"
                    ELSE IF arm = "Close" THEN "close_stop"
                    ELSE "close_again"
    /\ UNCHANGED <<synth_vars, decode_vars, voice_vars, lock_vars, mix_vars, sleep_time, in_port_name, midi_in_connection,
                   sender_alive, ports>>

\* run_step, lines 127-156: connected, wait for a command
run_step_conn_recv ==
    /\ pc = "conn_recv"
    /\ LET r == recv_timeout(commands, sender_alive)
           arm == recv_arm(r)
           disconnect == arm \in {"Close", "ConfigAcceptedPorts"}
       IN  /\ commands' = IF r.kind = "Ok" THEN Tail(commands) ELSE commands
           /\ mgr_last' = Decision("conn_recv", recv_outcome(r))
           /\ accepted_midi_ports' =
                  IF arm = "ConfigAcceptedPorts"
                  THEN r.msg.accepted_midi_ports
                  ELSE accepted_midi_ports
           /\ sleep_time_millis' =
                  IF arm = "ConfigSleepTime"
                  THEN r.msg.sleep_time_millis
                  ELSE sleep_time_millis
           /\ sent' = IF disconnect THEN Append(sent, "PortDisconnected")
                      ELSE sent
           /\ midi_read' =
                  IF disconnect
                  THEN midi_sender_send(midi_read, PortDisconnected)
                  ELSE midi_read
           /\ connected_port_name' =
                  IF disconnect THEN None ELSE connected_port_name
           /\ pc' = IF arm = "Close" THEN "close_stop"
                    ELSE IF arm = "ConfigAcceptedPorts" THEN "close_again"
                    ELSE "check_port"
    /\ UNCHANGED <<synth_vars, decode_vars, voice_vars, lock_vars, mix_vars, sleep_time, in_port_name, midi_in_connection,
                   sender_alive, ports>>

\* mutation of run_step_check_port: the name of a vanished port is kept
run_step_check_port_keeps_name ==
    /\ pc = "check_port"
    /\ \E fail \in 0 .. Len(ports) :
           IF has_connected_midi_in_port(ports, connected_port_name, fail)
           THEN /\ pc' = "conn_recv"
                /\ mgr_last' = Decision("check_port", "present")
                /\ UNCHANGED <<sent, connected_port_name, midi_read>>
           ELSE /\ sent' = Append(sent, "PortDisconnected")
                /\ midi_read' =
                       midi_sender_send(midi_read, PortDisconnected)
                /\ pc' = "close_again"
                /\ mgr_last' = Decision("check_port", "gone")
                /\ UNCHANGED connected_port_name
    /\ UNCHANGED <<synth_vars, decode_vars, voice_vars, lock_vars, mix_vars, accepted_midi_ports, sleep_time_millis, sleep_time,
                   in_port_name, midi_in_connection, commands, sender_alive,
                   ports>>

\* mutation of run_step_check_port: a vanished port is not reported
run_step_check_port_silent ==
    /\ pc = "check_port"
    /\ \E fail \in 0 .. Len(ports) :
           IF has_connected_midi_in_port(ports, connected_port_name, fail)
           THEN /\ pc' = "conn_recv"
                /\ mgr_last' = Decision("check_port", "present")
                /\ UNCHANGED <<sent, connected_port_name>>
           ELSE /\ sent' = sent
                /\ connected_port_name' = None
                /\ pc' = "close_again"
                /\ mgr_last' = Decision("check_port", "gone")
    /\ UNCHANGED <<synth_vars, decode_vars, voice_vars, lock_vars, mix_vars, midi_read, accepted_midi_ports, sleep_time_millis, sleep_time,
                   in_port_name, midi_in_connection, commands, sender_alive,
                   ports>>

\* run_step, lines 159-167: is the connected port still enumerated
run_step_check_port ==
    /\ pc = "check_port"
    /\ \E fail \in 0 .. Len(ports) :
           IF has_connected_midi_in_port(ports, connected_port_name, fail)
           THEN /\ pc' = "conn_recv"
                /\ mgr_last' = Decision("check_port", "present")
                /\ UNCHANGED <<sent, connected_port_name, midi_read>>
           ELSE /\ sent' = Append(sent, "PortDisconnected")
                /\ midi_read' =
                       midi_sender_send(midi_read, PortDisconnected)
                /\ connected_port_name' = None
                /\ pc' = "close_again"
                /\ mgr_last' = Decision("check_port", "gone")
    /\ UNCHANGED <<synth_vars, decode_vars, voice_vars, lock_vars, mix_vars, accepted_midi_ports, sleep_time_millis, sleep_time,
                   in_port_name, midi_in_connection, commands, sender_alive,
                   ports>>

\* mutation of run_step_close: stop is never set
run_step_close_never_stops ==
    /\ pc \in {"close_stop", "close_again"}
    /\ midi_in_connection' = FALSE
    /\ pc' = "select"
    /\ UNCHANGED <<synth_vars, decode_vars, voice_vars, lock_vars, mix_vars, midi_read, accepted_midi_ports, sleep_time_millis,
                   connected_port_name, sleep_time, in_port_name, commands,
                   sender_alive, ports, sent, mgr_last>>

\* run_step, lines 132-136, 144-148, 162-166: midi_in_connection.close()
\* and the return to run, which loops unless stop is set
run_step_close ==
    /\ pc \in {"close_stop", "close_again"}
    /\ midi_in_connection' = FALSE
    /\ pc' = IF pc = "close_stop" THEN "done" ELSE "select"
    /\ UNCHANGED <<synth_vars, decode_vars, voice_vars, lock_vars, mix_vars, midi_read, accepted_midi_ports, sleep_time_millis,
                   connected_port_name, sleep_time, in_port_name, commands,
                   sender_alive, ports, sent, mgr_last>>

ManagerStep ==
    \/ run_step_select
    \/ run_step_search_recv
    \/ run_step_connect
    \/ run_step_sleep
    \/ run_step_connected
    \/ run_step_conn_recv
    \/ run_step_check_port
    \/ run_step_close

\* Sender::send(..).unwrap_or(()): the command is queued while the manager
\* holds the Receiver, and dropped once the manager thread has ended
send(cmds, command) ==
    IF pc = "done" THEN cmds ELSE Append(cmds, command)

\* The senders below send while fewer than `room` commands are queued.
\* KeySynthApp::close_midi_reader
close_midi_reader(room) ==
    /\ sender_alive
    /\ Len(commands) < room
    /\ commands' = send(commands, Close)
    /\ UNCHANGED <<synth_vars, decode_vars, voice_vars, lock_vars, mix_vars, midi_read, pc, accepted_midi_ports, sleep_time_millis,
                   connected_port_name, sleep_time, in_port_name,
                   midi_in_connection, sender_alive, ports, sent, mgr_last>>

\* KeySynthApp::select_midi_in_port
app_select_midi_in_port(room) ==
    /\ sender_alive
    /\ Len(commands) < room
    /\ \E accepted \in AcceptedPortLists :
           commands' = send(commands, ConfigAcceptedPorts(accepted))
    /\ UNCHANGED <<synth_vars, decode_vars, voice_vars, lock_vars, mix_vars, midi_read, pc, accepted_midi_ports, sleep_time_millis,
                   connected_port_name, sleep_time, in_port_name,
                   midi_in_connection, sender_alive, ports, sent, mgr_last>>

\* a holder of the command Sender sends ConfigSleepTime
config_sleep_time(room) ==
    /\ sender_alive
    /\ Len(commands) < room
    /\ \E millis \in SleepTimes :
           commands' = send(commands, ConfigSleepTime(millis))
    /\ UNCHANGED <<synth_vars, decode_vars, voice_vars, lock_vars, mix_vars, midi_read, pc, accepted_midi_ports, sleep_time_millis,
                   connected_port_name, sleep_time, in_port_name,
                   midi_in_connection, sender_alive, ports, sent, mgr_last>>

\* the last Sender of the command channel is dropped
drop_command_sender ==
    /\ sender_alive
    /\ sender_alive' = FALSE
    /\ UNCHANGED <<synth_vars, decode_vars, voice_vars, lock_vars, mix_vars, midi_read, pc, accepted_midi_ports, sleep_time_millis,
                   connected_port_name, sleep_time, in_port_name,
                   midi_in_connection, commands, ports, sent, mgr_last>>

\* a device is plugged in or removed
ports_change ==
    /\ \E ps \in PortLists : ps # ports /\ ports' = ps
    /\ UNCHANGED <<synth_vars, decode_vars, voice_vars, lock_vars, mix_vars, midi_read, pc, accepted_midi_ports, sleep_time_millis,
                   connected_port_name, sleep_time, in_port_name,
                   midi_in_connection, commands, sender_alive, sent, mgr_last>>

(***************************************************************************)
(* MidiMessage::decode (midi_message.rs) and the driver callback that      *)
(* calls it (midi_reader.rs, lines 100-106)                                *)
(***************************************************************************)
MaxFrameLen == 4

\* the byte values frames are built from: data bytes, and status bytes of
\* every kind, on the first and on the last channel
Bytes == {0, 60, 100, 128, 144, 159, 160, 176, 192, 208, 224, 240}

Frames == UNION { [1 .. n -> Bytes] : n \in 0 .. MaxFrameLen }

\* MidiMessage
Invalid == [tag |-> "Invalid"]

NoteOn(chan, key, pressure) ==
    [tag |-> "NoteOn", chan |-> chan, key |-> key, pressure |-> pressure]

NoteOff(chan, key, pressure) ==
    [tag |-> "NoteOff", chan |-> chan, key |-> key, pressure |-> pressure]

PolyAfertouch(chan, key, pressure) ==
    [tag |-> "PolyAfertouch", chan |-> chan, key |-> key,
     pressure |-> pressure]

ControlChange(chan, control, value) ==
    [tag |-> "ControlChange", chan |-> chan, control |-> control,
     value |-> value]

ProgramChange(chan, number) ==
    [tag |-> "ProgramChange", chan |-> chan, number |-> number]

ChannelAftertouch(chan, pressure) ==
    [tag |-> "ChannelAftertouch", chan |-> chan, pressure |-> pressure]

PitchWheel(chan, wheel) == [tag |-> "PitchWheel", chan |-> chan, wheel |-> wheel]

SysEx(chan, d1, d2) == [tag |-> "SysEx", chan |-> chan, data |-> <<d1, d2>>]

\* the outcome of indexing a slice past its end: the thread panics
IndexPanic == [tag |-> "panic"]

\* data[i] of the source, i counted from 0
at(data, i) == data[i + 1]

\* mutation of decode: a NoteOn frame is accepted from two bytes on
decode_short_note_on(data) ==
    IF Len(data) < 1 THEN IndexPanic
    ELSE
    LET chan == (at(data, 0) % 16) + 1
        kind == (at(data, 0) \div 16) * 16
    IN  CASE kind = 128 ->
                 IF Len(data) >= 3
                 THEN NoteOff(chan, at(data, 1), at(data, 2))
                 ELSE Invalid
          [] kind = 144 ->
                 IF Len(data) >= 2
                 THEN IF Len(data) < 3 THEN IndexPanic
                      ELSE NoteOn(chan, at(data, 1), at(data, 2))
                 ELSE Invalid
          [] kind = 160 ->
                 IF Len(data) >= 3
                 THEN PolyAfertouch(chan, at(data, 1), at(data, 2))
                 ELSE Invalid
          [] kind = 176 ->
                 IF Len(data) >= 3
                 THEN ControlChange(chan, at(data, 1), at(data, 2))
                 ELSE Invalid
          [] kind = 192 ->
                 IF Len(data) >= 2
                 THEN ProgramChange(chan, at(data, 1))
                 ELSE Invalid
          [] kind = 208 ->
                 IF Len(data) >= 2
                 THEN ChannelAftertouch(chan, at(data, 1))
                 ELSE Invalid
          [] kind = 224 ->
                 IF Len(data) >= 3
                 THEN PitchWheel(chan,
                                 ((at(data, 2) * 256) % 65536) + at(data, 1))
                 ELSE Invalid
          [] kind = 240 ->
                 IF Len(data) < 3 THEN IndexPanic
                 ELSE SysEx(chan, at(data, 1), at(data, 2))
          [] OTHER -> Invalid

\* mutation of decode: the channel is the low nibble itself
decode_channel_from_zero(data) ==
    IF Len(data) < 1 THEN IndexPanic
    ELSE
    LET chan == at(data, 0) % 16
        kind == (at(data, 0) \div 16) * 16
    IN  CASE kind = 128 ->
                 IF Len(data) >= 3
                 THEN NoteOff(chan, at(data, 1), at(data, 2))
                 ELSE Invalid
          [] kind = 144 ->
                 IF Len(data) >= 3
                 THEN NoteOn(chan, at(data, 1), at(data, 2))
                 ELSE Invalid
          [] kind = 160 ->
                 IF Len(data) >= 3
                 THEN PolyAfertouch(chan, at(data, 1), at(data, 2))
                 ELSE Invalid
          [] kind = 176 ->
                 IF Len(data) >= 3
                 THEN ControlChange(chan, at(data, 1), at(data, 2))
                 ELSE Invalid
          [] kind = 192 ->
                 IF Len(data) >= 2
                 THEN ProgramChange(chan, at(data, 1))
                 ELSE Invalid
          [] kind = 208 ->
                 IF Len(data) >= 2
                 THEN ChannelAftertouch(chan, at(data, 1))
                 ELSE Invalid
          [] kind = 224 ->
                 IF Len(data) >= 3
                 THEN PitchWheel(chan,
                                 ((at(data, 2) * 256) % 65536) + at(data, 1))
                 ELSE Invalid
          [] kind = 240 ->
                 IF Len(data) < 3 THEN IndexPanic
                 ELSE SysEx(chan, at(data, 1), at(data, 2))
          [] OTHER -> Invalid

\* data[0] is read before anything else; the 0xF0 arm reads data[1] and
\* data[2] without looking at the length.  data[0] & 0x0f is the remainder
\* by 16, data[0] & 0xf0 the multiple of 16 below data[0]; the two halves
\* of the pitch wheel do not overlap, so | adds them.
decode(data) ==
    IF Len(data) < 1 THEN IndexPanic
    ELSE
    LET chan == (at(data, 0) % 16) + 1
        kind == (at(data, 0) \div 16) * 16
    IN  CASE kind = 128 ->
                 IF Len(data) >= 3
                 THEN NoteOff(chan, at(data, 1), at(data, 2))
                 ELSE Invalid
          [] kind = 144 ->
                 IF Len(data) >= 3
                 THEN NoteOn(chan, at(data, 1), at(data, 2))
                 ELSE Invalid
          [] kind = 160 ->
                 IF Len(data) >= 3
                 THEN PolyAfertouch(chan, at(data, 1), at(data, 2))
                 ELSE Invalid
          [] kind = 176 ->
                 IF Len(data) >= 3
                 THEN ControlChange(chan, at(data, 1), at(data, 2))
                 ELSE Invalid
          [] kind = 192 ->
                 IF Len(data) >= 2
                 THEN ProgramChange(chan, at(data, 1))
                 ELSE Invalid
          [] kind = 208 ->
                 IF Len(data) >= 2
                 THEN ChannelAftertouch(chan, at(data, 1))
                 ELSE Invalid
          [] kind = 224 ->
                 IF Len(data) >= 3
                 THEN PitchWheel(chan,
                                 ((at(data, 2) * 256) % 65536) + at(data, 1))
                 ELSE Invalid
          [] kind = 240 ->
                 IF Len(data) < 3 THEN IndexPanic
                 ELSE SysEx(chan, at(data, 1), at(data, 2))
          [] OTHER -> Invalid

\* midi_reader.rs, lines 102-105: the callback decodes the frame and sends
\* the message; a decode that panics sends nothing
callback(channel, data) ==
    IF decode(data) = IndexPanic THEN channel
    ELSE midi_sender_send(channel, decode(data))

\* the callback given to MidiInput::connect, called on a frame: the frame is
\* decoded and the message sent
midi_in_callback ==
    /\ ~ midi_msg.some
    /\ midi_msg' = Some(decode(message))
    /\ midi_read' = callback(midi_read, message)
    /\ UNCHANGED <<synth_vars, midi_vars, voice_vars, lock_vars, mix_vars, message>>

\* the frames the connected keyboard sends here: a key is pressed
HardwareFrames == { <<144, 0, 100>> }

\* the driver calls the callback given to MidiInput::connect on a frame from
\* the port, which it can do for as long as the connection is open
MidiInputConnection_callback ==
    /\ midi_in_connection
    /\ Len(midi_read.queue) < MaxMessages
    /\ \E data \in HardwareFrames :
           /\ message' = data
           /\ midi_msg' = Some(decode(data))
           /\ midi_read' = callback(midi_read, data)
    /\ UNCHANGED <<synth_vars, midi_vars, voice_vars, lock_vars, mix_vars>>

\* mutation of SynthKeyboard_run_recv: PortDisconnected is not acted on
SynthKeyboard_run_recv_keeps_connected ==
    /\ midi_read.receiver
    /\ midi_read.queue # << >>
    /\ LET msg == Head(midi_read.queue)
       IN  /\ midi_read' = [midi_read EXCEPT !.queue = Tail(@)]
           /\ midi_connected' =
                  IF msg.tag = "PortConnected" THEN TRUE ELSE midi_connected
           /\ SetInner(
                  IF msg.tag = "NoteOn"
                  THEN IF msg.key >= NUM_KEYS THEN Inner
                       ELSE play_key(Inner, msg.key, msg.pressure)
                  ELSE IF msg.tag = "NoteOff"
                  THEN IF msg.key >= NUM_KEYS THEN Inner
                       ELSE stop_key(Inner, msg.key)
                  ELSE Inner)
    /\ UNCHANGED <<last_call, fresh_run, midi_vars, decode_vars, voice_vars,
                   mix_vars, mutex, thread, volume>>

\* SynthKeyboard::run, lines 207-228: try_recv takes the oldest message and
\* the match applies it, through set_midi_connected, play_key or stop_key
SynthKeyboard_run_recv ==
    /\ midi_read.receiver
    /\ midi_read.queue # << >>
    /\ LET msg == Head(midi_read.queue)
       IN  /\ midi_read' = [midi_read EXCEPT !.queue = Tail(@)]
           /\ midi_connected' =
                  IF msg.tag = "PortConnected" THEN TRUE
                  ELSE IF msg.tag = "PortDisconnected" THEN FALSE
                  ELSE midi_connected
           /\ SetInner(
                  IF msg.tag = "NoteOn"
                  THEN IF msg.key >= NUM_KEYS THEN Inner
                       ELSE play_key(Inner, msg.key, msg.pressure)
                  ELSE IF msg.tag = "NoteOff"
                  THEN IF msg.key >= NUM_KEYS THEN Inner
                       ELSE stop_key(Inner, msg.key)
                  ELSE Inner)
    /\ UNCHANGED <<last_call, fresh_run, midi_vars, decode_vars, voice_vars,
                   mix_vars, mutex, thread, volume>>

\* no frame has arrived
InitNoFrame == message = << >> /\ midi_msg = None

\* MidiReader::start
InitMidiReader ==
    /\ pc = "select"
    /\ accepted_midi_ports = DEFAULT_MIDI_PORTS
    /\ sleep_time_millis = DEFAULT_SLEEP_TIME
    /\ connected_port_name = None
    /\ sleep_time = DEFAULT_SLEEP_TIME
    /\ in_port_name = None
    /\ midi_in_connection = FALSE
    /\ commands = << >>
    /\ sender_alive = TRUE
    /\ ports \in PortLists
    /\ sent = << >>
    /\ mgr_last = Decision("start", "none")

\* mpsc::channel(): the Receiver is handed to SynthKeyboard::run, nothing
\* has been sent
InitChannel == midi_read = Channel(TRUE, << >>)

\* the Receiver has been dropped: what is sent from now on is discarded
InitNoReceiver == midi_read = Channel(FALSE, << >>)

Init ==
    /\ InitSynthInner
    /\ InitMidiReader
    /\ InitNoFrame
    /\ InitVoice
    /\ InitLock
    /\ InitMix
    /\ InitChannel

\* the connection manager on its own: nobody receives its messages
InitMidi ==
    /\ InitSynthInner
    /\ InitMidiReader
    /\ InitNoFrame
    /\ InitVoice
    /\ InitLock
    /\ InitMix
    /\ InitNoReceiver

\* the voice pool on its own: no MIDI device is present
InitSynth == Init /\ ports = << >>

NextSynth == SynthStep

SpecSynth == InitSynth /\ [][NextSynth]_vars

\* the consumer of the MIDI messages and the output callback
NextRun ==
    \/ \E key \in KeyArgs : \E pressure \in Pressures :
           SynthKeyboard_run_NoteOn(key, pressure)
    \/ \E key \in KeyArgs : SynthKeyboard_run_NoteOff(key)
    \/ OutputCallback

SpecRun == InitSynth /\ [][NextRun]_vars

\* the audio driver keeps invoking the output callback
FairSpecRun == SpecRun /\ WF_vars(OutputCallback)

\* key presses and releases, and the output callback filling its buffer
SpecMix == InitSynth /\ [][NextMix]_vars

\* the three threads and the Mutex
SpecLock == InitSynth /\ [][NextLock]_vars

\* one voice of the pool on its own
NextVoice ==
    \/ \E key \in KeyArgs, pressure \in Pressures :
           SynthVoice_do_start(key, pressure)
    \/ SynthVoice_do_stop
    \/ \E instrument \in Instruments :
           SynthVoice_do_set_instrument(instrument)
    \/ SynthVoice_do_gen_samples

SpecVoice == InitSynth /\ [][NextVoice]_vars

\* the driver delivers a frame, any frame, to the callback
InitDecode ==
    /\ InitSynthInner
    /\ InitMidiReader
    /\ InitVoice
    /\ InitLock
    /\ InitMix
    /\ InitChannel
    /\ ports = << >>
    /\ message \in Frames
    /\ midi_msg = None

NextDecode == midi_in_callback

SpecDecode == InitDecode /\ [][NextDecode]_vars

NextMidi ==
    \/ ManagerStep
    \/ close_midi_reader(MaxCommands)
    \/ app_select_midi_in_port(MaxCommands)
    \/ config_sleep_time(MaxCommands)
    \/ drop_command_sender
    \/ ports_change

SpecMidi == InitMidi /\ [][NextMidi]_vars

\* the manager, the driver callback of its connection and the consumer of
\* their messages, with one port plugged in; the window closes the manager
\* or selects a port
InitEvents == Init /\ ports = << <<"s", "k">> >>

NextEvents ==
    \/ ManagerStep
    \/ MidiInputConnection_callback
    \/ SynthKeyboard_run_recv
    \/ close_midi_reader(MaxCommands)
    \/ app_select_midi_in_port(MaxCommands)

SpecEvents == InitEvents /\ [][NextEvents]_vars

\* the manager is a thread of its own: it is always scheduled again
FairSpecMidi == SpecMidi /\ WF_vars(ManagerStep)

\* the command channel with a burst of commands: one port is plugged in and
\* stays, and the callers send up to one command more before the manager
\* takes the first
InitCommands == InitMidi /\ ports = << <<"s", "k">> >>

NextCommands ==
    \/ ManagerStep
    \/ close_midi_reader(MaxCommands + 1)
    \/ app_select_midi_in_port(MaxCommands + 1)
    \/ config_sleep_time(MaxCommands + 1)

SpecCommands == InitCommands /\ [][NextCommands]_vars

(***************************************************************************)
(* The voice pool: properties                                              *)
(***************************************************************************)

\* C1: in every reachable state, a key in state Playing(i) has voice i
\* active and playing that key.
C1_PlayingKeyOwnsVoice ==
    \A k \in KeyIndexes :
        keys[k].tag = "Playing" =>
            /\ voices[keys[k].voice].active
            /\ voices[keys[k].voice].key = k

\* a key is playing right after an audio callback that had a released
\* voice to switch off, while another key has lost its voice
C1_Witness ==
    /\ last_call.op = "output_callback"
    /\ \E k \in KeyIndexes : keys[k].tag = "Playing"
    /\ \E j \in KeyIndexes : keys[j] = VoiceStolen
    /\ \E i \in VoiceIndexes : voices[i].stopping /\ ~ voices[i].active

Distinct(run) ==
    \A a, b \in 1 .. Len(run) : a # b => run[a] # run[b]

\* C2: from a fresh pool, MAX_VOICES presses of distinct keys fill the
\* voices in order and bring the cursor back to voice 0; one more press of
\* another key takes voice 0, leaves the first key VoiceStolen and the new
\* key Playing(0).
C2_StealOldest ==
    (fresh_run # "other" /\ Distinct(fresh_run)) =>
        /\ Len(fresh_run) = MAX_VOICES =>
              /\ next_voice = 0
              /\ \A n \in 1 .. MAX_VOICES : keys[fresh_run[n]] = Playing(n - 1)
        /\ Len(fresh_run) = MAX_VOICES + 1 =>
              /\ keys[fresh_run[1]] = VoiceStolen
              /\ keys[fresh_run[MAX_VOICES + 1]] = Playing(0)
              /\ voices[0].active
              /\ voices[0].key = fresh_run[MAX_VOICES + 1]
              /\ \A n \in 2 .. MAX_VOICES : keys[fresh_run[n]] = Playing(n - 1)

C2_Witness ==
    /\ fresh_run # "other"
    /\ Distinct(fresh_run)
    /\ Len(fresh_run) = MAX_VOICES + 1
    /\ keys[fresh_run[1]] = VoiceStolen

\* C3: play_key on a key that is Playing(i) leaves the key Playing(i), the
\* cursor, every other key and every other voice as they were, and voice i
\* started for that key.
C3_RestartInPlace ==
    [][\A k \in KeyIndexes :
           (/\ last_call'.op = "play_key"
            /\ keys[k].tag = "Playing"
            /\ \E pressure \in Pressures : SynthKeyboard_play_key(k, pressure))
           => /\ keys'[k] = keys[k]
              /\ next_voice' = next_voice
              /\ \A j \in KeyIndexes \ {k} : keys'[j] = keys[j]
              /\ \A v \in VoiceIndexes \ {keys[k].voice} :
                     voices'[v] = voices[v]
              /\ voices'[keys[k].voice].active
              /\ ~ voices'[keys[k].voice].stopping
              /\ voices'[keys[k].voice].key = k]_vars

\* a playing key was pressed again while another voice was being released
C3_Witness ==
    /\ last_call = [op |-> "play_key", was |-> "Playing"]
    /\ \E k \in KeyIndexes : keys[k].tag = "Playing"
    /\ \E i \in VoiceIndexes : voices[i].active /\ voices[i].stopping

\* C4: right after stop_key(k) the key is Off, and the voice it was playing
\* on is stopping and still active.
C4_StopKeyOffAtOnce ==
    [][\A k \in KeyIndexes :
           (last_call'.op = "stop_key" /\ SynthKeyboard_stop_key(k)) =>
               /\ keys'[k] = Off
               /\ keys[k].tag = "Playing" =>
                      /\ voices'[keys[k].voice].stopping
                      /\ voices'[keys[k].voice].active
                      /\ voices'[keys[k].voice].key = k]_vars

\* a playing key was released: its voice is active and stopping, the key Off
C4_Witness ==
    /\ last_call = [op |-> "stop_key", was |-> "Playing"]
    /\ \E i \in VoiceIndexes :
           /\ voices[i].active
           /\ voices[i].stopping
           /\ keys[voices[i].key] = Off

\* C18: right after set_instrument(x) on a voice, calling set_instrument(x)
\* again leaves the voice, its instrument and its overtone (frequency,
\* loudness) pairs as they are; SynthInner::set_instrument does this to
\* each voice of the pool on its own.
C18_SetInstrumentIdempotent ==
    voice_call = "set_instrument" =>
        SynthVoice_set_instrument(synth_voice, synth_voice.instrument)
            = synth_voice

\* set_instrument(BELL) was the last call on a sounding voice
C18_Witness ==
    /\ voice_call = "set_instrument"
    /\ synth_voice.active
    /\ synth_voice.instrument = "BELL"
    /\ synth_voice.overtones[2] =
           <<[zero |-> FALSE, ratio |-> 220, note |-> synth_voice.key], 6>>

\* the first inactive voice at or after the cursor, going round; the
\* cursor when every voice is active
FirstFree ==
    LET free == { d \in 0 .. (MAX_VOICES - 1) :
                    ~ voices[(next_voice + d) % MAX_VOICES].active }
    IN  IF free = {} THEN next_voice
        ELSE (next_voice
              + (CHOOSE d \in free : \A e \in free : d <= e)) % MAX_VOICES

\* C20: play_key for a key that is not Playing takes the first inactive
\* voice found going round from the cursor, the cursor's own voice first,
\* or the voice at the cursor when all are active; the cursor is then one
\* past the voice taken.
C20_RoundRobinAllocation ==
    /\ [](get_new_voice(Inner) =
              [voice_index |-> FirstFree,
               next_voice |-> (FirstFree + 1) % MAX_VOICES])
    /\ [][\A k \in KeyIndexes :
              (/\ last_call' = [op |-> "play_key", was |-> "NotPlaying"]
               /\ keys[k].tag # "Playing"
               /\ keys'[k].tag = "Playing")
              => /\ keys'[k] = Playing(FirstFree)
                 /\ next_voice' = (FirstFree + 1) % MAX_VOICES
                 /\ voices'[FirstFree].active
                 /\ voices'[FirstFree].key = k]_vars

\* a key got the last voice of the pool, the cursor has gone round, an
\* earlier key has lost its voice and a released voice is around
C20_Witness ==
    /\ last_call = [op |-> "play_key", was |-> "NotPlaying"]
    /\ next_voice = 0
    /\ \E k \in KeyIndexes : keys[k] = Playing(MAX_VOICES - 1)
    /\ \E j \in KeyIndexes : keys[j] = VoiceStolen
    /\ \E i \in VoiceIndexes : voices[i].stopping

\* stop has been called on the voice and it has not finished its release
Released(i) == voices[i].active /\ voices[i].stopping

\* C21: a voice on which stop was called stays active through every step
\* that is not an output callback (still released, or started again for a
\* key) and is inactive when the next output callback has finished (the
\* callback is the one step that does to the pool what output_callback
\* does to it while a voice is released); with
\* the callback invoked again and again, a released voice becomes inactive
\* or is started again.
C21_ReleasedVoiceEndsAtCallback ==
    /\ [][\A i \in VoiceIndexes :
              Released(i) =>
                  IF Inner' = output_callback(Inner)
                  THEN ~ voices'[i].active
                  ELSE voices'[i].active]_vars
    /\ \A i \in VoiceIndexes :
           Released(i) ~> (~ voices[i].active \/ ~ voices[i].stopping)

\* the callback has just switched a released voice off while another
\* voice goes on sounding
C21_Witness ==
    \E i, j \in VoiceIndexes :
           /\ ~ voices[i].active
           /\ voices[i].stopping
           /\ voices[j].active
           /\ ~ voices[j].stopping

\* what the accessor does to SynthInner when nothing else runs
WholeCall(inner, call) ==
    CASE call.op = "play_key" -> play_key(inner, call.key, call.pressure)
      [] call.op = "stop_key" -> stop_key(inner, call.key)
      [] call.op = "set_instrument" -> set_instrument(inner, call.instrument)
      [] call.op = "output_callback" -> output_callback(inner)
      [] OTHER -> inner

Inside(t) == thread[t].at # "idle"

\* C16: a thread that is anywhere in an accessor of the synth state, the
\* output callback's mixing pass included, holds the Mutex, so no two
\* threads are in the state at once; the state changes only by a step of
\* the holder; and when an accessor returns, the state is what its whole
\* body makes of the state it found when it locked: nothing of another
\* thread has come in between, and no thread has seen its middle.
C16_AccessUnderLock ==
    /\ [](\A t \in Threads : Inside(t) => mutex = t)
    /\ [](\A t, u \in Threads : (Inside(t) /\ Inside(u)) => t = u)
    /\ [][(<<Inner, midi_connected, volume>>' # <<Inner, midi_connected, volume>>)
              => mutex \in Threads /\ Inside(mutex)]_vars
    /\ [][\A t \in Threads :
              (Inside(t) /\ ~ Inside(t)') =>
                  /\ Inner' = WholeCall(thread[t].before[1], thread[t].call)
                  /\ mutex' = "free"]_vars

\* stop_key is in its middle, the voice released and the key still
\* Playing, while the other threads are outside
C16_Witness ==
    /\ thread["consumer"].at = "half"
    /\ thread["consumer"].call.op = "stop_key"
    /\ mutex = "consumer"
    /\ keys[thread["consumer"].call.key].tag = "Playing"
    /\ voices[keys[thread["consumer"].call.key].voice].stopping
    /\ ~ Inside("audio")
    /\ ~ Inside("ui")
    /\ \E i \in VoiceIndexes : voices[i].active /\ ~ voices[i].stopping

\* C26: after set_instrument(x) every voice of the pool, sounding or not,
\* has instrument x; no voice's active, stopping or key field, no key state
\* and not the cursor are changed by it.
C26_SetInstrumentFrame ==
    [][(last_call'.op = "set_instrument") =>
           /\ \E x \in Instruments : voices' = set_instrument(Inner, x).voices
           /\ \A x \in Instruments :
                  (voices' = set_instrument(Inner, x).voices) =>
                      \A i \in VoiceIndexes : voices'[i].instrument = x
           /\ \A i \in VoiceIndexes :
                  /\ voices'[i].active = voices[i].active
                  /\ voices'[i].stopping = voices[i].stopping
                  /\ voices'[i].key = voices[i].key
           /\ keys' = keys
           /\ next_voice' = next_voice]_vars

\* set_instrument(BELL) has just run on a pool with a sounding voice, a
\* voice that is not sounding, a playing key and the cursor moved on
C26_Witness ==
    /\ last_call.op = "set_instrument"
    /\ \A i \in VoiceIndexes : voices[i].instrument = "BELL"
    /\ \E i, j \in VoiceIndexes : voices[i].active /\ ~ voices[j].active
    /\ \E k \in KeyIndexes : keys[k].tag = "Playing"
    /\ next_voice # 0

\* C28: every voice that is active and not stopping is the voice of its
\* key: keys[voices[i].key] = Playing(i).
C28_NoOrphanVoices ==
    \A i \in VoiceIndexes :
        (voices[i].active /\ ~ voices[i].stopping) =>
            keys[voices[i].key] = Playing(i)

\* C29: a step turns a key j into VoiceStolen only when j was Playing on
\* the voice that the step gives to another key; a key that is Off, or
\* Playing on another voice, never becomes VoiceStolen.
C29_StolenOnlyFromItsVoice ==
    [][\A j \in KeyIndexes :
           (keys'[j] = VoiceStolen /\ keys[j] # VoiceStolen) =>
               /\ keys[j].tag = "Playing"
               /\ \E k \in KeyIndexes \ {j} :
                      /\ keys[k].tag # "Playing"
                      /\ keys'[k] = Playing(keys[j].voice)]_vars

\* no voice sounds and no key is down
AllQuiet ==
    /\ \A i \in VoiceIndexes : ~ voices[i].active
    /\ \A k \in KeyIndexes : keys[k] = Off

\* C30: with the output callback invoked again and again, when from some
\* point on every key is Off (every key pressed has been released and is
\* not pressed again), the pool ends with no voice active and every key
\* Off.
C30_ReleasedKeysGoQuiet ==
    <>[](\A k \in KeyIndexes : keys[k] = Off) => <>[]AllQuiet

\* C33: a play_key or stop_key call whose key number is NUM_KEYS or more
\* changes no voice, no key state and not the cursor.  (The test of the key
\* number comes before any use of it as an index, so the call cannot
\* fault.)
C33_OutOfRangeKeyIgnored ==
    [][\A key \in KeyArgs \ KeyIndexes :
           (\/ \E pressure \in Pressures : SynthKeyboard_play_key(key, pressure)
            \/ SynthKeyboard_stop_key(key))
           => UNCHANGED <<voices, keys, next_voice>>]_vars

\* stop_key was the last call and it was not for a key of the keyboard,
\* since none of them is Off; a voice is sounding
C33_Witness ==
    /\ last_call.op = "stop_key"
    /\ \A k \in KeyIndexes : keys[k] # Off
    /\ \E i \in VoiceIndexes : voices[i].active

(***************************************************************************)
(* The connection manager: properties                                      *)
(***************************************************************************)
Searching == pc \in {"select", "search_recv", "connect", "sleep"}

Connected == pc \in {"conn_recv", "check_port"}

Accepted(port_name) ==
    \E a \in Range(accepted_midi_ports) : contains(port_name, a)

ManagerMoves == pc' # pc

HeadIs(cmd) == commands # << >> /\ Head(commands).cmd = cmd

ChannelSevered == commands = << >> /\ ~ sender_alive

\* C5: the port the manager selects while Searching is an enumerated port
\* whose name contains an accepted pattern; when opening it succeeds, the
\* manager sends PortConnected once, records that port's name and is
\* Connected; no second PortConnected is sent while that connection is open.
C5_ConnectsToMatchingPort ==
    /\ [][(pc = "select" /\ ManagerMoves) =>
              IF in_port_name'.some
              THEN /\ pc' = "connect"
                   /\ in_port_name'.val \in Range(ports)
                   /\ Accepted(in_port_name'.val)
              ELSE pc' = "search_recv"]_vars
    /\ [](pc \in {"connect", "connected"} =>
              in_port_name.some /\ Accepted(in_port_name.val))
    /\ [][(pc = "connect" /\ midi_in_connection') =>
              pc' = "connected" /\ sent' = << >>]_vars
    /\ [][(pc = "connected" /\ ManagerMoves) =>
              /\ pc' = "conn_recv"
              /\ sent' = <<"PortConnected">>
              /\ connected_port_name' = in_port_name
              /\ midi_in_connection']_vars
    /\ [](Connected =>
              /\ midi_in_connection
              /\ sent = <<"PortConnected">>
              /\ connected_port_name = in_port_name
              /\ connected_port_name.some
              /\ Accepted(connected_port_name.val))

C5_Witness ==
    /\ pc = "conn_recv"
    /\ mgr_last = Decision("connect", "ok")
    /\ midi_in_connection
    /\ sent = <<"PortConnected">>
    /\ connected_port_name = Some(<<"s", "k", "x">>)
    /\ ports = << <<"s", "k", "x">> >>

PollWaitTimesOut ==
    pc = "conn_recv" /\ commands = << >> /\ sender_alive /\ ManagerMoves

ConnectedPortGone ==
    /\ pc = "check_port"
    /\ connected_port_name.some
    /\ connected_port_name.val \notin Range(ports)
    /\ ManagerMoves

\* C6: while Connected, a poll wait that no command ends is followed by the
\* port check; when the connected name is not among the enumerated ports
\* the check sends one PortDisconnected and clears connected_port_name, and
\* the manager then closes the connection and is Searching again.
C6_VanishedPortDisconnects ==
    /\ [][PollWaitTimesOut =>
              /\ pc' = "check_port"
              /\ UNCHANGED <<sent, connected_port_name, midi_in_connection>>
         ]_vars
    /\ [][ConnectedPortGone =>
              /\ sent' = <<"PortConnected", "PortDisconnected">>
              /\ connected_port_name' = None
              /\ pc' = "close_again"]_vars
    /\ [][(pc = "close_again" /\ ManagerMoves) =>
              /\ pc' = "select"
              /\ ~ midi_in_connection'
              /\ connected_port_name' = None
              /\ sent' = sent]_vars

C6_Witness ==
    /\ pc = "select"
    /\ mgr_last = Decision("check_port", "gone")
    /\ sent = <<"PortConnected", "PortDisconnected">>
    /\ ~ midi_in_connection
    /\ connected_port_name = None
    /\ in_port_name.val \notin Range(ports)

\* C7: a Close command that is queued while the manager is Searching is
\* eventually consumed and the manager terminates.
C7_CloseWhileSearchingTerminates ==
    (Searching /\ Close \in Range(commands)) ~> (pc = "done")

\* C8: Close consumed while Connected sends PortDisconnected, then closes
\* the connection and terminates; a terminated manager sends nothing, has
\* no connection and stays terminated.
C8_CloseWhileConnected ==
    /\ [][(pc = "conn_recv" /\ HeadIs("Close") /\ ManagerMoves) =>
              /\ sent' = Append(sent, "PortDisconnected")
              /\ connected_port_name' = None
              /\ pc' = "close_stop"]_vars
    /\ [][(pc = "close_stop" /\ ManagerMoves) =>
              /\ pc' = "done"
              /\ ~ midi_in_connection'
              /\ sent' = sent]_vars
    /\ [](pc = "done" => ~ midi_in_connection /\ connected_port_name = None)
    /\ [][pc = "done" =>
              /\ pc' = "done"
              /\ UNCHANGED <<sent, midi_in_connection, connected_port_name>>
         ]_vars

C8_Witness ==
    /\ pc = "done"
    /\ mgr_last = Decision("conn_recv", "Close")
    /\ sent = <<"PortConnected", "PortDisconnected">>
    /\ ~ midi_in_connection

\* what Close does to the manager when it is consumed while Searching,
\* apart from leaving the queue
ExitFromSearching ==
    /\ pc' = "done"
    /\ UNCHANGED <<sent, connected_port_name, midi_in_connection,
                   accepted_midi_ports, sleep_time_millis>>

\* ... and while Connected
ExitFromConnected ==
    /\ pc' = "close_stop"
    /\ sent' = Append(sent, "PortDisconnected")
    /\ connected_port_name' = None
    /\ UNCHANGED <<midi_in_connection, accepted_midi_ports,
                   sleep_time_millis>>

\* C9: in Searching and in Connected, finding the command channel severed
\* moves the manager exactly as consuming Close does: same messages sent,
\* same next position, and the termination that follows is the same.
C9_SeveredChannelIsClose ==
    /\ [][(pc = "search_recv" /\ HeadIs("Close") /\ ManagerMoves) =>
              ExitFromSearching /\ commands' = Tail(commands)]_vars
    /\ [][(pc = "search_recv" /\ ChannelSevered /\ ManagerMoves) =>
              ExitFromSearching /\ commands' = commands]_vars
    /\ [][(pc = "conn_recv" /\ HeadIs("Close") /\ ManagerMoves) =>
              ExitFromConnected /\ commands' = Tail(commands)]_vars
    /\ [][(pc = "conn_recv" /\ ChannelSevered /\ ManagerMoves) =>
              ExitFromConnected /\ commands' = commands]_vars

C9_Witness ==
    /\ pc = "done"
    /\ mgr_last = Decision("conn_recv", "Disconnected")
    /\ sent = <<"PortConnected", "PortDisconnected">>
    /\ ~ midi_in_connection
    /\ ~ sender_alive

\* C10: ConfigAcceptedPorts consumed while Connected replaces the accepted
\* patterns, sends PortDisconnected and clears connected_port_name, whether
\* or not the connected name matches the new patterns; the connection is
\* then closed and the manager is Searching.
C10_ReconfigureAlwaysDisconnects ==
    /\ [][(pc = "conn_recv" /\ HeadIs("ConfigAcceptedPorts") /\ ManagerMoves)
              => /\ accepted_midi_ports' = Head(commands).accepted_midi_ports
                 /\ sent' = Append(sent, "PortDisconnected")
                 /\ connected_port_name' = None
                 /\ pc' = "close_again"]_vars
    /\ [][(pc = "close_again" /\ ManagerMoves) =>
              pc' = "select" /\ ~ midi_in_connection']_vars

\* the connected port still matches the new patterns, and is still plugged
C10_Witness ==
    /\ pc = "select"
    /\ mgr_last = Decision("conn_recv", "ConfigAcceptedPorts")
    /\ sent = <<"PortConnected", "PortDisconnected">>
    /\ ~ midi_in_connection
    /\ connected_port_name = None
    /\ in_port_name.some
    /\ Accepted(in_port_name.val)
    /\ in_port_name.val \in Range(ports)

\* C11: a failed attempt to open the selected port sends nothing and does
\* not end the manager: connected_port_name is empty, no connection exists,
\* the manager sleeps for the poll interval and selects a port again; this
\* is so for every failure, whatever came before it.
C11_FailedConnectRetries ==
    /\ [][(pc = "connect" /\ ManagerMoves /\ ~ midi_in_connection') =>
              /\ pc' = "sleep"
              /\ connected_port_name' = None
              /\ UNCHANGED <<sent, commands, accepted_midi_ports,
                             sleep_time_millis, sleep_time>>]_vars
    /\ [](pc = "sleep" =>
              /\ connected_port_name = None
              /\ ~ midi_in_connection
              /\ sleep_time = sleep_time_millis)
    /\ [][(pc = "sleep" /\ ManagerMoves) =>
              /\ pc' = "select"
              /\ UNCHANGED <<sent, commands, connected_port_name,
                             midi_in_connection>>]_vars

\* after an earlier connection was dropped, opening the port failed; the
\* manager has slept and is about to select again, the port still there
C11_Witness ==
    /\ pc = "select"
    /\ mgr_last = Decision("connect", "failed")
    /\ sent = <<"PortConnected", "PortDisconnected">>
    /\ connected_port_name = None
    /\ ~ midi_in_connection
    /\ in_port_name.some
    /\ in_port_name.val \in Range(ports)
    /\ Accepted(in_port_name.val)

\* C12: wherever the manager waits for a command, and once it has
\* terminated, connected_port_name is set exactly when the connection is
\* open.
C12_NameIffConnection ==
    pc \in {"search_recv", "conn_recv", "done"} =>
        (connected_port_name.some <=> midi_in_connection)

\* waiting for a command with no port, after a connection was dropped
C12_Witness ==
    /\ pc = "search_recv"
    /\ sent = <<"PortConnected", "PortDisconnected">>
    /\ connected_port_name = None
    /\ ~ midi_in_connection

\* C19 as stated: a terminated manager has consumed a Close command.
C19_OnlyCloseTerminates == pc = "done" => mgr_last.outcome = "Close"

\* C19: the manager terminates only from a wait for commands, and only
\* when that wait delivers Close or finds the channel disconnected, every
\* Sender dropped and nothing queued.
C19_CloseOrSeveredTerminates ==
    /\ [](pc = "done" =>
              /\ mgr_last.at \in {"search_recv", "conn_recv"}
              /\ mgr_last.outcome \in {"Close", "Disconnected"}
              /\ mgr_last.outcome = "Disconnected" => ~ sender_alive)
    /\ [][(pc' \in {"done", "close_stop"} /\ pc \notin {"done", "close_stop"})
              => /\ pc \in {"search_recv", "conn_recv"}
                 /\ HeadIs("Close") \/ ChannelSevered]_vars

\* terminated while Searching, no Close ever sent
C19_Witness ==
    /\ pc = "done"
    /\ mgr_last = Decision("search_recv", "Disconnected")
    /\ ~ sender_alive
    /\ commands = << >>

\* the manager takes the oldest queued command at one of its two waits and
\* acts on that command
ConsumesOldest ==
    /\ commands # << >>
    /\ commands' = Tail(commands)
    /\ pc \in {"search_recv", "conn_recv"}
    /\ mgr_last' = Decision(pc, Head(commands).cmd)
    /\ Head(commands).cmd = "ConfigAcceptedPorts" =>
           accepted_midi_ports' = Head(commands).accepted_midi_ports
    /\ Head(commands).cmd = "ConfigSleepTime" =>
           sleep_time_millis' = Head(commands).sleep_time_millis
    /\ Head(commands).cmd # "ConfigAcceptedPorts" =>
           accepted_midi_ports' = accepted_midi_ports
    /\ Head(commands).cmd # "ConfigSleepTime" =>
           sleep_time_millis' = sleep_time_millis

\* a caller queues one command behind those already waiting
QueuesNewest ==
    /\ pc # "done"
    /\ \E command \in
             {Close} \cup
             {ConfigAcceptedPorts(a) : a \in AcceptedPortLists} \cup
             {ConfigSleepTime(m) : m \in SleepTimes} :
           commands' = Append(commands, command)
    /\ UNCHANGED <<pc, accepted_midi_ports, sleep_time_millis,
                   connected_port_name, midi_in_connection, sent, mgr_last>>

\* C17: the command queue changes only by a caller adding one command at
\* its end or by the manager taking the oldest one and acting on it, so
\* commands are consumed once at most and in the order sent; the manager's
\* configuration changes only by a command it consumes; once the manager
\* has terminated a send changes nothing.
C17_CommandsInOrderOnce ==
    /\ [][commands' # commands => ConsumesOldest \/ QueuesNewest]_vars
    /\ [][commands' = commands =>
              UNCHANGED <<accepted_midi_ports, sleep_time_millis>>]_vars
    /\ [][pc = "done" => UNCHANGED vars]_vars

\* a reconfiguration was consumed while Close, sent behind it, still waits
C17_Witness ==
    /\ pc = "close_again"
    /\ mgr_last = Decision("conn_recv", "ConfigAcceptedPorts")
    /\ commands # << >>
    /\ Head(commands) = Close
    /\ accepted_midi_ports = << <<"k", "x">> >>

\* C22: at every bounded wait for commands, searching or connected, the
\* timeout of the wait is the poll interval of the newest ConfigSleepTime
\* the manager has consumed (sleep_time_millis, which nothing else writes).
C22_WaitUsesNewInterval ==
    pc \in {"search_recv", "conn_recv"} => sleep_time = sleep_time_millis

\* the first enumerated port with an accepted name, None when there is none
FirstAccepted ==
    LET hits == { i \in 1 .. Len(ports) : Accepted(ports[i]) }
    IN  IF hits = {} THEN None
        ELSE Some(ports[CHOOSE i \in hits : \A j \in hits : i <= j])

\* C23: port selection returns the first port, in enumeration order, whose
\* name contains an accepted pattern, and no port exactly when no
\* enumerated port has such a name.
C23_SelectsFirstAccepted ==
    [][(pc = "select" /\ pc' # "select") => in_port_name' = FirstAccepted]_vars

\* C27: the connection events of the manager alternate, PortConnected
\* first: since the last connect the manager has sent nothing, PortConnected,
\* or PortConnected and then PortDisconnected; a connect is made only with
\* nothing sent so far or with the last connection reported disconnected;
\* and a manager that has terminated has sent nothing at all or
\* PortDisconnected last.
C27_ConnectionEventsAlternate ==
    /\ [](sent \in { << >>, <<"PortConnected">>,
                     <<"PortConnected", "PortDisconnected">> })
    /\ [][(pc' = "connected" /\ pc # "connected") =>
              /\ sent \in { << >>, <<"PortConnected", "PortDisconnected">> }
              /\ sent' = << >>]_vars
    /\ [](pc = "done" =>
              sent \in { << >>, <<"PortConnected", "PortDisconnected">> })

\* the manager has terminated after a connection, PortDisconnected sent last
C27_Witness ==
    /\ pc = "done"
    /\ sent = <<"PortConnected", "PortDisconnected">>
    /\ ~ midi_in_connection

\* the name read that fails, if any, is that of a port other than the
\* connected one
FailsOnAnotherPort(fail) ==
    fail = 0 \/ ports[fail] # connected_port_name.val

\* C32: while Connected the manager disconnects, short of a Close, a new
\* pattern list or a severed command channel, only when the name of the
\* connected port is absent from the enumerated ports.  The check of the
\* port, made after a wait that brought no such command, finds the port
\* present whenever its name is enumerated, whatever happens when the names
\* of other ports are read.
C32_DisconnectsOnlyWhenGone ==
    (pc = "check_port" /\ connected_port_name.some) =>
        \A fail \in 0 .. Len(ports) :
            (/\ connected_port_name.val \in Range(ports)
             /\ FailsOnAnotherPort(fail))
            => has_connected_midi_in_port(ports, connected_port_name, fail)

(***************************************************************************)
(* The stream of messages and its consumer: properties                     *)
(***************************************************************************)
\* a message the driver callback decoded from a frame
FromHardware(msg) == msg.tag \notin {"PortConnected", "PortDisconnected"}

\* the step puts a message decoded from a frame into the stream
HardwareMessageSent ==
    /\ Len(midi_read'.queue) = Len(midi_read.queue) + 1
    /\ FromHardware(midi_read'.queue[Len(midi_read'.queue)])

\* C31: a message decoded from hardware bytes enters the stream after the
\* PortConnected of its connection and before its PortDisconnected: when it
\* is sent, the last thing the manager has sent since it opened the
\* connection is PortConnected.
C31_EventsInsideConnection ==
    [][HardwareMessageSent =>
           (sent # << >> /\ sent[Len(sent)] = "PortConnected")]_vars

\* no PortConnected and no PortDisconnected waits in the channel: the
\* consumer has applied every message the manager has sent
ManagerMessagesApplied ==
    \A n \in 1 .. Len(midi_read.queue) : FromHardware(midi_read.queue[n])

\* C34: whenever the consumer has applied every message the manager has
\* sent, midi_connected is TRUE exactly when the manager is Connected; so
\* it is FALSE once the manager has terminated and its messages are
\* applied.
C34_ConnectedFlagFollowsManager ==
    ManagerMessagesApplied => (midi_connected <=> Connected)

\* the manager has terminated after a connection and the consumer has
\* applied all it sent
C34_Witness ==
    /\ pc = "done"
    /\ sent = <<"PortConnected", "PortDisconnected">>
    /\ midi_read.queue = << >>
    /\ ~ midi_connected

(***************************************************************************)
(* decode: properties                                                      *)
(***************************************************************************)
Decoded == midi_msg.some

\* the high nibble of the status byte of a frame that has one
StatusNibble == message[1] \div 16

\* C13: decode returns a MidiMessage for every frame, the empty frame and
\* a frame with status nibble 0xF and fewer than three bytes included: it
\* never reads past the end of the frame.
C13_DecodeTotal == Decoded => midi_msg.val # IndexPanic

\* C14: a frame with a status nibble other than 0xF that is shorter than
\* the minimum for its nibble (3 bytes for 0x8, 0x9, 0xA, 0xB, 0xE; 2 bytes
\* for 0xC, 0xD) decodes to Invalid.
C14_ShortFrameInvalid ==
    (/\ Decoded
     /\ Len(message) >= 1
     /\ \/ StatusNibble \in {8, 9, 10, 11, 14} /\ Len(message) < 3
        \/ StatusNibble \in {12, 13} /\ Len(message) < 2)
    => midi_msg.val = Invalid

C14_Witness ==
    /\ message = <<144, 60>>
    /\ midi_msg = Some(Invalid)

\* C15: a frame of at least three bytes whose status byte s has high nibble
\* 0x9 (0x8) decodes to NoteOn (NoteOff) with channel (s & 0x0F) + 1, the
\* second byte as key and the third as pressure; [0x90, 60, 100] decodes to
\* NoteOn(1, 60, 100) and [0x80, 60, 0] to NoteOff(1, 60, 0).
C15_NoteOnNoteOff ==
    /\ (Decoded /\ Len(message) >= 3 /\ message[1] \in 144 .. 159) =>
           midi_msg.val = [tag |-> "NoteOn",
                           chan |-> (message[1] - 144) + 1,
                           key |-> message[2],
                           pressure |-> message[3]]
    /\ (Decoded /\ Len(message) >= 3 /\ message[1] \in 128 .. 143) =>
           midi_msg.val = [tag |-> "NoteOff",
                           chan |-> (message[1] - 128) + 1,
                           key |-> message[2],
                           pressure |-> message[3]]
    /\ (Decoded /\ message = <<144, 60, 100>>) =>
           midi_msg.val = [tag |-> "NoteOn", chan |-> 1, key |-> 60,
                           pressure |-> 100]
    /\ (Decoded /\ message = <<128, 60, 0>>) =>
           midi_msg.val = [tag |-> "NoteOff", chan |-> 1, key |-> 60,
                           pressure |-> 0]

\* a NoteOn on the last channel, in a frame longer than three bytes
C15_Witness ==
    /\ message = <<159, 60, 100, 0>>
    /\ midi_msg = Some([tag |-> "NoteOn", chan |-> 16, key |-> 60,
                        pressure |-> 100])

\* C24: a frame with status nibble 0xE and two data bytes d1, d2 in 0..127
\* decodes to PitchWheel with wheel = d1 + 128 * d2, a value in 0..16383.
C24_PitchWheel14Bit ==
    (/\ Decoded
     /\ Len(message) >= 3
     /\ StatusNibble = 14
     /\ message[2] <= 127
     /\ message[3] <= 127)
    => /\ midi_msg.val.tag = "PitchWheel"
       /\ midi_msg.val.wheel = message[2] + 128 * message[3]
       /\ midi_msg.val.wheel \in 0 .. 16383

(***************************************************************************)
(* The output buffer: properties                                           *)
(***************************************************************************)
\* what is heard of the voices of `played` from voice i on, added to acc
RECURSIVE SaturatingSum(_, _, _)
SaturatingSum(acc, i, n) ==
    IF i >= MAX_VOICES THEN acc
    ELSE LET heard ==
                 IF i \in DOMAIN played
                 THEN IF played[i][n] > I16_MAX THEN I16_MAX
                      ELSE IF played[i][n] < I16_MIN THEN I16_MIN
                      ELSE played[i][n]
                 ELSE 0
             sum == acc + heard
         IN  SaturatingSum(IF sum > I16_MAX THEN I16_MAX
                           ELSE IF sum < I16_MIN THEN I16_MIN
                           ELSE sum,
                           i + 1, n)

\* C25: after every output callback each sample of the buffer is what
\* adding, from zero, in pool order and with saturation, the clamped 16-bit
\* value of each voice that played gives, whatever the buffer held before;
\* the voices that played are the voices active at the callback, and a
\* voice that was inactive is left as it was.
C25_BufferIsSaturatingSum ==
    /\ [](\A n \in 1 .. BUFFER_SIZE :
              /\ out_data[n] = SaturatingSum(0, 0, n)
              /\ out_data[n] \in I16_MIN .. I16_MAX)
    /\ [][(mix_vars' # mix_vars) =>
              /\ DOMAIN played' = {i \in VoiceIndexes : voices[i].active}
              /\ \A i \in VoiceIndexes :
                     ~ voices[i].active => voices'[i] = voices[i]]_vars

\* every voice played for the last buffer, one sample hit the upper limit
\* by clamping and another the lower limit by addition
C25_Witness ==
    /\ DOMAIN played = VoiceIndexes
    /\ \E n, m \in 1 .. BUFFER_SIZE :
           /\ out_data[n] = I16_MAX
           /\ \E i \in VoiceIndexes : played[i][n] > I16_MAX
           /\ out_data[m] = I16_MIN
           /\ \A i \in VoiceIndexes : played[i][m] > I16_MIN

====
